---------------------------- MODULE Spec2Model ----------------------------
(***************************************************************************)
(* The upload placeholder plugin of remirror                               *)
(* (packages/remirror__core/src/builtins/upload-extension/                 *)
(*  file-placeholder-plugin.ts).                                           *)
(*                                                                         *)
(* The plugin state is { set, payloads }: a ProseMirror DecorationSet of   *)
(* widget decorations, each carrying spec.id, and a JavaScript Map from    *)
(* identifier to payload.  apply() remaps the set through the              *)
(* transaction's mapping and then applies the action stored in the         *)
(* transaction's metadata.                                                 *)
(*                                                                         *)
(* The document is modelled by its content size, all decorations live in   *)
(* one node (the DecorationSet's `local` array, kept sorted by position),  *)
(* and a transaction carries a Mapping made of the StepMaps of replace     *)
(* steps (start, oldSize, newSize).  The host engine's operations that the *)
(* plugin calls (StepMap.mapResult, Mapping.mapResult, DecorationSet.map,  *)
(* add, find, remove) are modelled at the plugin's call sites by what      *)
(* prosemirror-transform / prosemirror-view do for widget decorations.     *)
(***************************************************************************)
EXTENDS Integers, Sequences, FiniteSets, TLC

(* ------------------------------ bounds -------------------------------- *)

\* largest document content size explored
MaxDoc == 2
\* largest number of decorations held by the set (guard of the add action)
MaxDecos == 2
\* largest replaced range and largest inserted slice of a replace step
MaxOld == 2
MaxNew == 2

\* identifiers and payloads are opaque to the plugin: two of each
Ids == {"A", "B"}
Payloads == {1, 2}
\* positions an add action may name, inside or outside the document
Positions == 0 .. MaxDoc

\* JavaScript `undefined`, the result of a lookup that finds nothing
Undefined == -1

(* --------------------------- transactions ----------------------------- *)

\* ActionType / PlaceholderPluginAction; "none" is a missing meta (null)
NoAction == [type |-> "none", id |-> "", pos |-> Undefined, payload |-> Undefined]
AddAction(id, pos, payload) ==
  [type |-> "ADD_PLACEHOLDER", id |-> id, pos |-> pos, payload |-> payload]
RemoveAction(id) ==
  [type |-> "REMOVE_PLACEHOLDER", id |-> id, pos |-> Undefined, payload |-> Undefined]

\* a transaction: the StepMaps of its steps (tr.mapping.maps) and its meta
Transaction(steps) == [steps |-> steps, action |-> NoAction]

\* a setMeta that keeps the action an earlier call stored
setUploadPlaceholderActionKeepFirst(t, action) ==
  IF t.action.type = "none" THEN [t EXCEPT !.action = action] ELSE t

\* tr.setMeta(key, action): one slot per key, a later call overwrites
setUploadPlaceholderAction(t, action) == [t EXCEPT !.action = action]

(* ------------------------- position mapping --------------------------- *)

\* StepMap.mapResult that forgets to shift the positions behind the range
StepMapResultNoShift(m, pos, assoc) ==
  IF m.start > pos \/ pos > m.start + m.oldSize
    THEN [pos |-> pos, deleted |-> FALSE]
    ELSE [pos |-> m.start + (IF m.oldSize = 0 \/ pos = m.start + m.oldSize
                               THEN m.newSize ELSE 0),
          deleted |-> pos # m.start + m.oldSize]

\* StepMap.mapResult(pos, assoc) for a map with one range
\* (start, oldSize, newSize); returns the new position and `deleted`
StepMapResult(m, pos, assoc) ==
  LET start == m.start
      end == m.start + m.oldSize
  IN IF start > pos
       THEN [pos |-> pos, deleted |-> FALSE]
       ELSE IF pos <= end
         THEN LET side == IF m.oldSize = 0 THEN assoc
                          ELSE IF pos = start THEN -1
                          ELSE IF pos = end THEN 1 ELSE assoc
              IN [pos |-> start + (IF side < 0 THEN 0 ELSE m.newSize),
                  deleted |-> IF assoc < 0 THEN pos # start ELSE pos # end]
         ELSE [pos |-> pos + m.newSize - m.oldSize, deleted |-> FALSE]

\* Mapping.mapResult(pos, assoc): through every map in order; deleted as
\* soon as one map deletes the position
RECURSIVE MappingResult(_, _, _)
MappingResult(maps, pos, assoc) ==
  IF maps = <<>>
    THEN [pos |-> pos, deleted |-> FALSE]
    ELSE LET r == StepMapResult(Head(maps), pos, assoc)
             rest == MappingResult(Tail(maps), r.pos, assoc)
         IN [pos |-> rest.pos, deleted |-> r.deleted \/ rest.deleted]

(* --------------------------- decoration set --------------------------- *)

\* Decoration.widget(pos, dom, {id}): from = to = pos, side 0
Widget(pos, id) == [from |-> pos, id |-> id]

\* local.concat(decorations).sort(byPos): a stable insertion by position
RECURSIVE SortedInsert(_, _)
SortedInsert(local, deco) ==
  IF local = <<>> THEN <<deco>>
  ELSE IF Head(local).from <= deco.from
    THEN <<Head(local)>> \o SortedInsert(Tail(local), deco)
    ELSE <<deco>> \o local

\* newLocal.sort(byPos)
RECURSIVE SortByPos(_)
SortByPos(local) ==
  IF local = <<>> THEN <<>>
  ELSE SortedInsert(SortByPos(SubSeq(local, 1, Len(local) - 1)), local[Len(local)])

\* DecorationSet.map(mapping, doc): each widget is mapped with assoc 1
\* (side 0) and dropped when its position is deleted
RECURSIVE MapLocal(_, _)
MapLocal(local, maps) ==
  IF local = <<>> THEN <<>>
  ELSE LET r == MappingResult(maps, Head(local).from, 1)
           rest == MapLocal(Tail(local), maps)
       IN IF r.deleted THEN rest
          ELSE <<Widget(r.pos, Head(local).id)>> \o rest

DecorationSetMap(set, maps) ==
  IF set = <<>> \/ maps = <<>> THEN set ELSE SortByPos(MapLocal(set, maps))

\* DecorationSet.add(doc, [deco])
DecorationSetAdd(set, deco) == SortedInsert(set, deco)

\* DecorationSet.find(undefined, undefined, spec => spec.id === id)
DecorationSetFind(set, id) == SelectSeq(set, LAMBDA d : d.id = id)

\* a remove that drops whatever sits at the positions of the found decorations
DecorationSetRemoveByPos(set, id) ==
  SelectSeq(set, LAMBDA d :
    \A i \in 1 .. Len(set) : set[i].id = id => set[i].from # d.from)

\* set.remove(set.find(undefined, undefined, spec => spec.id === id))
DecorationSetRemove(set, id) == SelectSeq(set, LAMBDA d : d.id # id)

(* ------------------------------ payloads ------------------------------ *)

\* a set that writes the payload under every key of the map
MapSetAll(payloads, id, payload) == [k \in DOMAIN payloads \cup {id} |-> payload]
\* Map.prototype.set / delete / get on the payload map
MapSet(payloads, id, payload) ==
  [k \in DOMAIN payloads \cup {id} |-> IF k = id THEN payload ELSE payloads[k]]
\* a delete that is forgotten, and one that clears the map
MapDeleteKeep(payloads, id) == payloads
MapDeleteClear(payloads, id) == [k \in {} |-> Undefined]
MapDelete(payloads, id) == [k \in DOMAIN payloads \ {id} |-> payloads[k]]
MapGet(payloads, id) == IF id \in DOMAIN payloads THEN payloads[id] ELSE Undefined

(* ------------------------------- plugin ------------------------------- *)

\* state.init()
init == [set |-> <<>>, payloads |-> <<>>]

\* an init that hands out one module-level Map to every editor state
SharedMap(n) == 1

\* `new Map()` inside init(): the n-th call of init creates the n-th Map object
NewMap(n) == n

\* an apply that adds the placeholder before remapping the set
applyAddBeforeMap(t, value) ==
  LET action == t.action
  IN IF action.type = "ADD_PLACEHOLDER"
       THEN [set |-> DecorationSetMap(
                       DecorationSetAdd(value.set, Widget(action.pos, action.id)),
                       t.steps),
             payloads |-> MapSet(value.payloads, action.id, action.payload)]
     ELSE IF action.type = "REMOVE_PLACEHOLDER"
       THEN [set |-> DecorationSetRemove(DecorationSetMap(value.set, t.steps), action.id),
             payloads |-> MapDelete(value.payloads, action.id)]
     ELSE [set |-> DecorationSetMap(value.set, t.steps), payloads |-> value.payloads]

\* state.apply(tr, { set, payloads })
apply(t, value) ==
  LET mapped == DecorationSetMap(value.set, t.steps)
      action == t.action
  IN IF action.type = "ADD_PLACEHOLDER"
       THEN [set |-> DecorationSetAdd(mapped, Widget(action.pos, action.id)),
             payloads |-> MapSet(value.payloads, action.id, action.payload)]
     ELSE IF action.type = "REMOVE_PLACEHOLDER"
       THEN [set |-> DecorationSetRemove(mapped, action.id),
             payloads |-> MapDelete(value.payloads, action.id)]
     ELSE [set |-> mapped, payloads |-> value.payloads]

\* findUploadPlaceholderPos(state, id): found[0]?.from
findUploadPlaceholderPos(value, id) ==
  LET found == DecorationSetFind(value.set, id)
  IN IF found = <<>> THEN Undefined ELSE found[1].from

\* findUploadPlaceholderPayload(state, id)
findUploadPlaceholderPayload(value, id) == MapGet(value.payloads, id)

\* hasUploadingFile(state): payloads.size > 0
hasUploadingFile(value) == Cardinality(DOMAIN value.payloads) > 0

(* ------------------------------- state -------------------------------- *)

VARIABLES
  doc,         \* content size of the document of the newest editor state
  set,         \* the `set` field of the newest plugin state
  payloads,    \* the payload Map created by init()
  dispatching, \* TRUE from EditorState.apply(tr) until the view takes the new state
  tr,          \* the transaction being dispatched
  prevSet,     \* the `set` field of the plugin state the transaction was applied to
  registered,  \* identifiers added and not removed since
  pc,          \* progress of the upload of each identifier
  calls,       \* the actions given to setUploadPlaceholderAction on `tr`, in call order
  other        \* a second editor session: its plugin state and its view

vars == <<doc, set, payloads, dispatching, tr, prevSet, registered, pc, calls, other>>

\* the plugin state of the newest editor state, and of the one before it
State == [set |-> set, payloads |-> payloads]
PrevState == [set |-> prevSet, payloads |-> payloads]

\* the second session after its own init(): `payloads` of `other` is the
\* content of its Map when that is not the Map of the first session
InitOther ==
  [set |-> init.set, payloads |-> init.payloads, map |-> NewMap(2), dispatching |-> FALSE]

\* the plugin state of the second session
OtherState ==
  [set |-> other.set,
   payloads |-> IF other.map = NewMap(1) THEN payloads ELSE other.payloads]

\* replace steps that fit the document of size d and keep it within MaxDoc
ReplaceSteps(d) ==
  { m \in [start : 0 .. d, oldSize : 0 .. MaxOld, newSize : 0 .. MaxNew] :
      /\ m.oldSize + m.newSize > 0
      /\ m.start + m.oldSize <= d
      /\ d - m.oldSize + m.newSize <= MaxDoc }

\* the mappings a transaction on a document of size d may carry
Mappings(d) == {<<>>} \cup { <<m>> : m \in ReplaceSteps(d) }

\* tr.doc.content.size
RECURSIVE DocSize(_, _)
DocSize(d, maps) ==
  IF maps = <<>> THEN d
  ELSE DocSize(d - Head(maps).oldSize + Head(maps).newSize, Tail(maps))

\* identifiers registered after the action
Register(reg, action) ==
  IF action.type = "ADD_PLACEHOLDER" THEN reg \cup {action.id}
  ELSE IF action.type = "REMOVE_PLACEHOLDER" THEN reg \ {action.id}
  ELSE reg

\* view.dispatch(tr): EditorState.apply(tr) runs the plugin's apply once
Dispatch(t) ==
  LET next == apply(t, State)
  IN /\ ~dispatching
     /\ Len(next.set) <= MaxDecos
     /\ dispatching' = TRUE
     /\ doc' = DocSize(doc, t.steps)
     /\ set' = next.set
     /\ payloads' = next.payloads
     /\ prevSet' = set
     /\ tr' = t
     /\ registered' = Register(registered, t.action)

Init ==
  /\ doc \in 0 .. MaxDoc
  /\ set = init.set
  /\ payloads = init.payloads
  /\ dispatching = FALSE
  /\ prevSet = init.set
  /\ tr = Transaction(<<>>)
  /\ registered = {}
  /\ pc = [i \in Ids |-> "idle"]
  /\ calls = <<>>
  /\ other = InitOther

\* a transaction carrying no action: a document edit, or no step at all
Edit ==
  /\ \E maps \in Mappings(doc) : Dispatch(Transaction(maps))
  /\ calls' = <<>>
  /\ UNCHANGED <<pc, other>>

\* a transaction carrying an add action, with or without document steps
Add ==
  /\ \E maps \in Mappings(doc), id \in Ids, pos \in Positions, payload \in Payloads :
       /\ Dispatch(setUploadPlaceholderAction(Transaction(maps), AddAction(id, pos, payload)))
       /\ calls' = <<AddAction(id, pos, payload)>>
  /\ UNCHANGED <<pc, other>>

\* a transaction carrying a remove action, with or without document steps
Remove ==
  /\ \E maps \in Mappings(doc), id \in Ids :
       /\ Dispatch(setUploadPlaceholderAction(Transaction(maps), RemoveAction(id)))
       /\ calls' = <<RemoveAction(id)>>
  /\ UNCHANGED <<pc, other>>

\* view.updateState(newState): the old state and the transaction are dropped
UpdateState ==
  /\ dispatching
  /\ dispatching' = FALSE
  /\ tr' = Transaction(<<>>)
  /\ prevSet' = set
  /\ calls' = <<>>
  /\ UNCHANGED <<doc, set, payloads, registered, pc, other>>

Next == Edit \/ Add \/ Remove \/ UpdateState

Spec == Init /\ [][Next]_vars

(* ------------------------- text insertions ---------------------------- *)

\* largest document and longest inserted text of the insertion scenario
MaxInsertDoc == 8
MaxInsert == 3

\* the StepMap of inserting n characters at position q
InsertStep(q, n) == [start |-> q, oldSize |-> 0, newSize |-> n]

InitInsert ==
  /\ doc \in 0 .. MaxInsertDoc
  /\ set = init.set
  /\ payloads = init.payloads
  /\ dispatching = FALSE
  /\ prevSet = init.set
  /\ tr = Transaction(<<>>)
  /\ registered = {}
  /\ pc = [i \in Ids |-> "idle"]
  /\ calls = <<>>
  /\ other = InitOther

\* insertText(text, q): a transaction with one insertion and no action
InsertText ==
  /\ \E q \in 0 .. doc, n \in 1 .. MaxInsert :
       /\ doc + n <= MaxInsertDoc
       /\ Dispatch(Transaction(<<InsertStep(q, n)>>))
  /\ calls' = <<>>
  /\ UNCHANGED <<pc, other>>

\* an add action for A on a transaction without steps
AddPlaceholder ==
  /\ \E id \in {"A"}, pos \in 0 .. MaxInsertDoc, payload \in Payloads :
       /\ Dispatch(setUploadPlaceholderAction(Transaction(<<>>), AddAction(id, pos, payload)))
       /\ calls' = <<AddAction(id, pos, payload)>>
  /\ UNCHANGED <<pc, other>>

NextInsert == InsertText \/ AddPlaceholder \/ UpdateState

SpecInsert == InitInsert /\ [][NextInsert]_vars

(* ------------------------------ uploads ------------------------------- *)

\* an upload starts: it dispatches its add transaction
StartUpload(id) ==
  /\ pc[id] = "idle"
  /\ \E pos \in Positions, payload \in Payloads :
       /\ Dispatch(setUploadPlaceholderAction(Transaction(<<>>), AddAction(id, pos, payload)))
       /\ calls' = <<AddAction(id, pos, payload)>>
  /\ pc' = [pc EXCEPT ![id] = "uploading"]
  /\ UNCHANGED other

\* an upload completes or fails: it dispatches its remove transaction
FinishUpload(id) ==
  /\ pc[id] = "uploading"
  /\ Dispatch(setUploadPlaceholderAction(Transaction(<<>>), RemoveAction(id)))
  /\ calls' = <<RemoveAction(id)>>
  /\ pc' = [pc EXCEPT ![id] = "done"]
  /\ UNCHANGED other

NextUploads ==
  \/ Edit
  \/ UpdateState
  \/ \E id \in Ids : StartUpload(id)
  \/ \E id \in Ids : FinishUpload(id)

SpecUploads == Init /\ [][NextUploads]_vars

(* ------------------- several actions on one transaction --------------- *)

\* the actions a caller may put on a transaction
Actions ==
  { AddAction(id, pos, payload) : id \in Ids, pos \in Positions, payload \in Payloads }
    \cup { RemoveAction(id) : id \in Ids }

\* setUploadPlaceholderAction is called twice on one transaction before it
\* is dispatched
SetTwice ==
  /\ \E first \in Actions, last \in Actions :
       /\ Dispatch(setUploadPlaceholderAction(
                     setUploadPlaceholderAction(Transaction(<<>>), first), last))
       /\ calls' = <<first, last>>
  /\ UNCHANGED <<pc, other>>

NextMeta == SetTwice \/ UpdateState

SpecMeta == Init /\ [][NextMeta]_vars

(* ---------------------------- two sessions ---------------------------- *)

\* the actions dispatched in the two-session scenario: positions 0 and 1
SessionActions == { a \in Actions : a.pos <= 1 }

\* a transaction of the first session that carries an action and no step
ActHere ==
  /\ \E a \in SessionActions :
       /\ Dispatch(setUploadPlaceholderAction(Transaction(<<>>), a))
       /\ calls' = <<a>>
  /\ UNCHANGED <<pc, other>>

\* a transaction of the second session that carries an action and no step:
\* apply runs on the second session's plugin state and writes its Map
ActThere ==
  /\ ~dispatching
  /\ ~other.dispatching
  /\ \E a \in SessionActions :
       LET next == apply(setUploadPlaceholderAction(Transaction(<<>>), a), OtherState)
           shared == other.map = NewMap(1)
       IN /\ Len(next.set) <= MaxDecos
          /\ other' = [set |-> next.set,
                       payloads |-> IF shared THEN other.payloads ELSE next.payloads,
                       map |-> other.map,
                       dispatching |-> TRUE]
          /\ payloads' = IF shared THEN next.payloads ELSE payloads
  /\ UNCHANGED <<doc, set, dispatching, tr, prevSet, registered, pc, calls>>

\* the view of the second session takes its new state
UpdateOther ==
  /\ other.dispatching
  /\ other' = [other EXCEPT !.dispatching = FALSE]
  /\ UNCHANGED <<doc, set, payloads, dispatching, tr, prevSet, registered, pc, calls>>

NextSessions == ActHere \/ ActThere \/ UpdateState \/ UpdateOther

SpecSessions == Init /\ [][NextSessions]_vars

(* ----------------------------- properties ----------------------------- *)

TypeOK ==
  /\ doc \in Nat
  /\ Len(set) <= MaxDecos
  /\ \A i \in 1 .. Len(set) : set[i].id \in Ids /\ set[i].from \in Nat
  /\ DOMAIN payloads \subseteq Ids
  /\ registered \subseteq Ids

\* C1: after any sequence of transactions every identifier added and not
\* removed since has exactly one decoration in the set and one payload entry,
\* and every other identifier has neither a decoration nor a payload.
C1_OnePositionOnePayload ==
  \A id \in Ids :
    LET found == DecorationSetFind(set, id)
    IN IF id \in registered
         THEN Len(found) = 1 /\ id \in DOMAIN payloads
         ELSE Len(found) = 0 /\ id \notin DOMAIN payloads

\* C2: in every reachable state the identifiers carried by the decorations
\* of `set` are exactly the keys of `payloads`.
C2_SetAndPayloadsInSync ==
  { set[i].id : i \in 1 .. Len(set) } = DOMAIN payloads

\* C3: a transaction without an action keeps the registered identifiers and
\* every payload, and moves each placeholder to the image of its old position
\* under the transaction's mapping.
C3_EditKeepsPlaceholders ==
  [][(dispatching' /\ tr'.action.type = "none") =>
       /\ payloads' = payloads
       /\ \A id \in Ids :
            LET old == findUploadPlaceholderPos(State, id)
                new == findUploadPlaceholderPos([set |-> set', payloads |-> payloads'], id)
            IN IF old = Undefined
                 THEN new = Undefined
                 ELSE new = MappingResult(tr'.steps, old, 1).pos]_vars

\* C4: a transaction is applied in two phases, remap then action: after a
\* transaction carrying an add action the set holds the new placeholder at
\* exactly the action's position and, besides it, exactly the old
\* decorations at the images of their positions under the mapping.
C4_RemapThenApply ==
  (dispatching /\ tr.action.type = "ADD_PLACEHOLDER") =>
    LET added == Widget(tr.action.pos, tr.action.id)
        Img(d) == MappingResult(tr.steps, d.from, 1)
        Kept == { i \in 1 .. Len(prevSet) : ~Img(prevSet[i]).deleted }
        Moved(i) == Widget(Img(prevSet[i]).pos, prevSet[i].id)
        Now(w) == Cardinality({ i \in 1 .. Len(set) : set[i] = w })
        Before(w) == Cardinality({ i \in Kept : Moved(i) = w })
    IN \A w \in { set[i] : i \in 1 .. Len(set) } \cup { Moved(i) : i \in Kept } \cup {added} :
         Now(w) = Before(w) + (IF w = added THEN 1 ELSE 0)

\* C4 witness: one transaction edits the document and adds B at a position
\* the mapping would have moved, while the registered A is moved by it.
C4_Witness ==
  /\ dispatching
  /\ tr.action.type = "ADD_PLACEHOLDER"
  /\ tr.action.id = "B"
  /\ tr.steps # <<>>
  /\ MappingResult(tr.steps, tr.action.pos, 1).pos # tr.action.pos
  /\ findUploadPlaceholderPos(State, "B") = tr.action.pos
  /\ findUploadPlaceholderPos(PrevState, "A") = tr.action.pos
  /\ findUploadPlaceholderPos(State, "A") = MappingResult(tr.steps, tr.action.pos, 1).pos

\* C5: an insertion of n characters before a placeholder at p moves it to
\* p + n, an insertion after p leaves it at p; A at 5 and 3 characters
\* inserted before 5 give position 8.
C5_InsertShiftsPlaceholder ==
  (dispatching /\ tr.action.type = "none" /\ Len(tr.steps) = 1 /\ tr.steps[1].oldSize = 0) =>
    \A id \in Ids :
      LET p == findUploadPlaceholderPos(PrevState, id)
          q == tr.steps[1].start
          n == tr.steps[1].newSize
      IN p # Undefined =>
           /\ q < p => findUploadPlaceholderPos(State, id) = p + n
           /\ q > p => findUploadPlaceholderPos(State, id) = p
           /\ (p = 5 /\ q < 5 /\ n = 3) => findUploadPlaceholderPos(State, id) = 8

\* C5 witness: A was at 5, 3 characters were inserted before 5, A is at 8.
C5_Witness ==
  /\ dispatching
  /\ tr.action.type = "none"
  /\ Len(tr.steps) = 1
  /\ tr.steps[1].oldSize = 0 /\ tr.steps[1].newSize = 3 /\ tr.steps[1].start < 5
  /\ findUploadPlaceholderPos(PrevState, "A") = 5
  /\ findUploadPlaceholderPos(State, "A") = 8

\* C6: hasUploadingFile is true exactly when some identifier has a
\* placeholder decoration in the set.
C6_HasUploadingIffRegistered ==
  hasUploadingFile(State) <=> (Len(set) > 0)

\* C7: both lookups return undefined for every identifier that is not
\* registered, whether it was never added or was added and then removed.
C7_LookupsAbsent ==
  \A id \in Ids \ registered :
    /\ findUploadPlaceholderPos(State, id) = Undefined
    /\ findUploadPlaceholderPayload(State, id) = Undefined

\* C7 witness: A had a placeholder, the transaction removed it, both lookups
\* of A are now undefined.
C7_Witness ==
  /\ dispatching
  /\ tr = setUploadPlaceholderAction(Transaction(<<>>), RemoveAction("A"))
  /\ findUploadPlaceholderPos(PrevState, "A") # Undefined
  /\ findUploadPlaceholderPos(State, "A") = Undefined
  /\ findUploadPlaceholderPayload(State, "A") = Undefined

\* C8: a remove action for an identifier that is not registered changes
\* nothing: the transaction leaves the payload map as it was and the
\* decoration set and every lookup as the same transaction without the
\* action leaves them (unchanged when the transaction has no steps).
C8_RemoveUnknownIsNoOp ==
  [][(dispatching' /\ tr'.action.type = "REMOVE_PLACEHOLDER"
        /\ tr'.action.id \notin registered) =>
       LET after == [set |-> set', payloads |-> payloads']
       IN /\ payloads' = payloads
          /\ hasUploadingFile(after) = hasUploadingFile(State)
          /\ tr'.steps = <<>> => set' = set
          /\ Len(set') = Cardinality({ i \in 1 .. Len(set) :
                                 ~MappingResult(tr'.steps, set[i].from, 1).deleted })
          /\ \A id \in Ids :
               /\ findUploadPlaceholderPayload(after, id)
                    = findUploadPlaceholderPayload(State, id)
               /\ LET old == findUploadPlaceholderPos(State, id)
                  IN tr'.steps = <<>> => findUploadPlaceholderPos(after, id) = old]_vars

\* C8 witness: B is registered, A is not, and a remove action for A has
\* been applied.
C8_Witness ==
  /\ dispatching
  /\ tr = setUploadPlaceholderAction(Transaction(<<>>), RemoveAction("A"))
  /\ registered = {"B"}
  /\ prevSet = set
  /\ findUploadPlaceholderPos(State, "B") # Undefined
  /\ findUploadPlaceholderPayload(State, "B") # Undefined
  /\ findUploadPlaceholderPos(State, "A") = Undefined

\* C9: identifiers are independent: an add or remove action for A changes
\* neither the position nor the payload of any B # A (they are what the
\* same transaction without the action gives, and unchanged when it has no
\* steps), also when both sit at the same position; and an identifier added
\* where it has no decoration resolves to its own position and payload.
C9_IdentifiersIndependent ==
  [][(dispatching' /\ tr'.action.type # "none") =>
       LET after == [set |-> set', payloads |-> payloads']
           plain == apply(Transaction(tr'.steps), State)
           a == tr'.action
       IN /\ \A b \in Ids \ {a.id} :
               /\ findUploadPlaceholderPos(after, b) = findUploadPlaceholderPos(plain, b)
               /\ tr'.steps = <<>> =>
                    findUploadPlaceholderPos(after, b) = findUploadPlaceholderPos(State, b)
               /\ findUploadPlaceholderPayload(after, b)
                    = findUploadPlaceholderPayload(State, b)
          /\ (a.type = "ADD_PLACEHOLDER"
                /\ findUploadPlaceholderPos(plain, a.id) = Undefined) =>
               /\ findUploadPlaceholderPos(after, a.id) = a.pos
               /\ findUploadPlaceholderPayload(after, a.id) = a.payload]_vars

\* C9 witness: A and B sat at the same position with different payloads, A
\* has been removed and B still resolves to that position and its payload.
C9_Witness ==
  /\ dispatching
  /\ tr = setUploadPlaceholderAction(Transaction(<<>>), RemoveAction("A"))
  /\ findUploadPlaceholderPos(PrevState, "A") = 1
  /\ findUploadPlaceholderPos(PrevState, "B") = 1
  /\ findUploadPlaceholderPos(State, "A") = Undefined
  /\ findUploadPlaceholderPos(State, "B") = 1
  /\ findUploadPlaceholderPayload(State, "B") = 2

\* C10: while an upload has applied its add and not yet its remove,
\* hasUploadingFile is true and its identifier resolves to a position and a
\* payload; once no upload is between its add and its remove, the set and
\* the payload map are empty and hasUploadingFile is false.
C10_UploadsTracked ==
  /\ \A id \in Ids :
       pc[id] = "uploading" =>
         /\ hasUploadingFile(State)
         /\ findUploadPlaceholderPos(State, id) # Undefined
         /\ findUploadPlaceholderPayload(State, id) # Undefined
  /\ (\A id \in Ids : pc[id] # "uploading") =>
       /\ set = <<>>
       /\ DOMAIN payloads = {}
       /\ ~hasUploadingFile(State)

\* C11: an add action whose position lies outside the document of the
\* transaction is a no-op: it adds no decoration and no payload entry, and
\* hasUploadingFile and every lookup answer as the same transaction without
\* the action makes them answer.
C11_InvalidAddIsNoOp ==
  [][(dispatching' /\ tr'.action.type = "ADD_PLACEHOLDER" /\ tr'.action.pos > doc') =>
       LET after == [set |-> set', payloads |-> payloads']
           plain == apply(Transaction(tr'.steps), State)
       IN /\ Len(set') = Len(plain.set)
          /\ payloads' = payloads
          /\ hasUploadingFile(after) = hasUploadingFile(State)
          /\ \A id \in Ids :
               /\ findUploadPlaceholderPos(after, id) = findUploadPlaceholderPos(plain, id)
               /\ findUploadPlaceholderPayload(after, id)
                    = findUploadPlaceholderPayload(State, id)]_vars

\* C12: in every reachable state each identifier has at most one decoration
\* and at most one payload entry, also after a second add for a registered
\* identifier; and after a remove action the identifier has no decoration
\* and no payload.
C12_AtMostOnePlaceholder ==
  /\ \A id \in Ids : Len(DecorationSetFind(set, id)) <= 1
  /\ (dispatching /\ tr.action.type = "REMOVE_PLACEHOLDER") =>
       /\ DecorationSetFind(set, tr.action.id) = <<>>
       /\ tr.action.id \notin DOMAIN payloads

\* C13: the payload lookup of a registered identifier returns the payload of
\* the add action that registered it, and no document edit and no action
\* for another identifier changes it.
C13_PayloadKept ==
  [][dispatching' =>
       LET after == [set |-> set', payloads |-> payloads']
           a == tr'.action
       IN /\ a.type = "ADD_PLACEHOLDER" =>
               findUploadPlaceholderPayload(after, a.id) = a.payload
          /\ \A id \in registered :
               (a.type = "none" \/ a.id # id) =>
                 /\ findUploadPlaceholderPayload(State, id) \in Payloads
                 /\ findUploadPlaceholderPayload(after, id)
                      = findUploadPlaceholderPayload(State, id)]_vars

\* C13 witness: A was registered with payload 2 and B with payload 1; an
\* edit has dropped A's decoration and A's payload lookup still returns 2.
C13_Witness ==
  /\ dispatching
  /\ tr.action.type = "none"
  /\ tr.steps # <<>>
  /\ registered = {"A", "B"}
  /\ findUploadPlaceholderPos(PrevState, "A") # Undefined
  /\ findUploadPlaceholderPos(State, "A") = Undefined
  /\ findUploadPlaceholderPayload(State, "A") = 2
  /\ findUploadPlaceholderPayload(State, "B") = 1

\* C14: editor states are immutable snapshots: applying a transaction to a
\* state does not change what the three queries return on that state.
C14_OldStateUnchanged ==
  [][dispatching' =>
       LET old == [set |-> prevSet', payloads |-> payloads']
       IN /\ hasUploadingFile(old) = hasUploadingFile(State)
          /\ \A id \in Ids :
               /\ findUploadPlaceholderPos(old, id) = findUploadPlaceholderPos(State, id)
               /\ findUploadPlaceholderPayload(old, id)
                    = findUploadPlaceholderPayload(State, id)]_vars

\* C15: when setUploadPlaceholderAction is called more than once on one
\* transaction, the tracker applies the action of the last call only: the
\* set and the payload map are what the transaction carrying that action
\* alone produces, whatever the earlier calls were.
C15_LastActionWins ==
  [][(dispatching' /\ Len(calls') > 1) =>
       LET last == calls'[Len(calls')]
           only == apply(setUploadPlaceholderAction(Transaction(tr'.steps), last), State)
       IN /\ tr'.action = last
          /\ set' = only.set
          /\ payloads' = only.payloads]_vars

\* C15 witness: add A and then add B were put on one transaction; B is
\* registered with its position and payload, A left no trace.
C15_Witness ==
  /\ dispatching
  /\ calls = <<AddAction("A", 0, 1), AddAction("B", 1, 2)>>
  /\ findUploadPlaceholderPos(State, "B") = 1
  /\ findUploadPlaceholderPayload(State, "B") = 2
  /\ findUploadPlaceholderPos(State, "A") = Undefined
  /\ findUploadPlaceholderPayload(State, "A") = Undefined

\* C16: tracker state is scoped to one session: a transaction applied in
\* one session changes no position, payload or hasUploadingFile result of
\* the other session.
C16_SessionsIsolated ==
  [][/\ (dispatching' /\ ~dispatching) =>
          LET there == [set |-> other'.set,
                        payloads |-> IF other'.map = NewMap(1)
                                       THEN payloads' ELSE other'.payloads]
          IN /\ hasUploadingFile(there) = hasUploadingFile(OtherState)
             /\ \A id \in Ids :
                  /\ findUploadPlaceholderPos(there, id)
                       = findUploadPlaceholderPos(OtherState, id)
                  /\ findUploadPlaceholderPayload(there, id)
                       = findUploadPlaceholderPayload(OtherState, id)
     /\ (other'.dispatching /\ ~other.dispatching) =>
          LET here == [set |-> set', payloads |-> payloads']
          IN /\ hasUploadingFile(here) = hasUploadingFile(State)
             /\ \A id \in Ids :
                  /\ findUploadPlaceholderPos(here, id)
                       = findUploadPlaceholderPos(State, id)
                  /\ findUploadPlaceholderPayload(here, id)
                       = findUploadPlaceholderPayload(State, id)]_vars

\* C16 witness: the first session holds A at 0 with payload 1 and no B; the
\* second session has just added B while it holds A at 1 with payload 2.
C16_Witness ==
  /\ other.dispatching
  /\ findUploadPlaceholderPos(State, "A") = 0
  /\ findUploadPlaceholderPayload(State, "A") = 1
  /\ findUploadPlaceholderPayload(State, "B") = Undefined
  /\ findUploadPlaceholderPos(OtherState, "A") = 1
  /\ findUploadPlaceholderPayload(OtherState, "A") = 2
  /\ findUploadPlaceholderPos(OtherState, "B") # Undefined
  /\ findUploadPlaceholderPayload(OtherState, "B") # Undefined

=============================================================================
